---- MODULE Spec2Model ----
(***************************************************************************)
(* Model of Extras/Reconstitute.py: the recovery of an EC2 instance from a *)
(* group of tagged EBS snapshots.  The script is one sequential process    *)
(* (pc is its position in the module-level sequence); the provider (EC2)   *)
(* is the environment: it answers every call with a result or with a       *)
(* ClientError, and moves the instance and the boot volume through their   *)
(* asynchronous transitions on its own.                                    *)
(***************************************************************************)
EXTENDS Integers, Sequences, FiniteSets, TLC

\* ------------------------------------------------------------------ bounds
\* Largest number of snapshots the tag query returns.
MaxSnaps == 2

\* The longest security-group list the validator is tried with.
MaxEntries == 6

\* ------------------------------------------------- strings as char tuples
\* Python's None for an option that was not given on the command line.
NoneVal == <<"<None>">>

\* Python truthiness of an optional string: neither None nor "".
Truthy(s) == s # NoneVal /\ s # <<>>

HexChars == {"0", "1", "2", "3", "4", "5", "6", "7", "8", "9",
             "a", "b", "c", "d", "e", "f"}

HexDigits == <<"0", "a", "1", "b", "2", "c", "3", "d", "4", "e", "5", "f",
               "6", "7", "8", "9">>

\* A string of n lowercase-hex characters.
HexStr(n) == [i \in 1..n |-> HexDigits[((i - 1) % 16) + 1]]

\* re.match(prefix + "([a-f0-9]{n})", s): anchored at the start only.
ReMatch(prefix, n, s) ==
    /\ Len(s) >= Len(prefix) + n
    /\ SubSeq(s, 1, Len(prefix)) = prefix
    /\ \A i \in (Len(prefix) + 1)..(Len(prefix) + n) : s[i] \in HexChars

\* The regular expression for the short ids alone, without the length test.
IdShapeAnyLength(prefix, s) ==
    IF ReMatch(prefix, 8, s) THEN "query" ELSE "chars"

\* The length test and the regular expression shared by validate_ami_id and
\* validate_security_group: "length", "chars" or "query" (the provider is
\* asked next).
IdShape(prefix, s) ==
    IF Len(s) = Len(prefix) + 8
    THEN (IF ReMatch(prefix, 8, s) THEN "query" ELSE "chars")
    ELSE IF Len(s) = Len(prefix) + 17
    THEN (IF ReMatch(prefix, 17, s) THEN "query" ELSE "chars")
    ELSE "length"

AmiPrefix == <<"a", "m", "i", "-">>
SgPrefix == <<"s", "g", "-">>

\* validate_ami_id without the except clause of describe_images.
validate_ami_id_unchecked(ami, exists) ==
    IF ami = NoneVal THEN "exception"
    ELSE IF IdShape(AmiPrefix, ami) = "length" THEN "exit_length"
    ELSE IF IdShape(AmiPrefix, ami) = "chars" THEN "exit_chars"
    ELSE "ok"

\* validate_ami_id: the way the validator ends, given the provider's answer
\* to describe_images.  len(None) raises TypeError.
validate_ami_id(ami, exists) ==
    IF ami = NoneVal THEN "exception"
    ELSE IF IdShape(AmiPrefix, ami) = "length" THEN "exit_length"
    ELSE IF IdShape(AmiPrefix, ami) = "chars" THEN "exit_chars"
    ELSE IF exists THEN "ok" ELSE "exit_notfound"

\* str.split(",")
RECURSIVE SplitAcc(_, _, _)
SplitAcc(s, cur, acc) ==
    IF s = <<>> THEN Append(acc, cur)
    ELSE IF Head(s) = "," THEN SplitAcc(Tail(s), <<>>, Append(acc, cur))
    ELSE SplitAcc(Tail(s), Append(cur, Head(s)), acc)

Split(s) == SplitAcc(s, <<>>, <<>>)

\* The longest security-group list the validator keeps.
MaxGroups == 5

\* A truncation that pops from the front of the list.
TruncateFront(list) ==
    IF Len(list) > MaxGroups
    THEN SubSeq(list, Len(list) - MaxGroups + 1, Len(list)) ELSE list

\* while len(list) > 5: list.pop()
Truncate(list) ==
    IF Len(list) > MaxGroups THEN SubSeq(list, 1, MaxGroups) ELSE list

\* The loop of validate_security_group over the truncated list from entry i
\* on; entry `bad` (0: none) is the one the provider does not know.
\* q counts the describe_security_groups calls made so far.
RECURSIVE SgLoop(_, _, _, _)
SgLoop(list, i, bad, q) ==
    IF i > Len(list) THEN [outcome |-> "ok", list |-> list, queries |-> q]
    ELSE IF IdShape(SgPrefix, list[i]) = "length"
    THEN [outcome |-> "exit_length", list |-> list, queries |-> q]
    ELSE IF IdShape(SgPrefix, list[i]) = "chars"
    THEN [outcome |-> "exit_chars", list |-> list, queries |-> q]
    ELSE IF i = bad
    THEN [outcome |-> "exit_notfound", list |-> list, queries |-> q + 1]
    ELSE SgLoop(list, i + 1, bad, q + 1)

\* validate_security_group: None has no split() (AttributeError).
validate_security_group(groups, bad) ==
    IF groups = NoneVal
    THEN [outcome |-> "exception", list |-> <<>>, queries |-> 0]
    ELSE SgLoop(Truncate(Split(groups)), 1, bad, 0)

\* ------------------------------------------------------ command-line inputs
Sg8 == SgPrefix \o HexStr(8)
Sg17 == SgPrefix \o HexStr(17)

AmiInputs ==
    { NoneVal,
      AmiPrefix \o HexStr(8),
      AmiPrefix \o HexStr(7),
      AmiPrefix \o <<"A">> \o HexStr(7) }

SgInputs ==
    { NoneVal,
      <<>>,
      Sg8,
      <<"s", "g", "_">> \o HexStr(8),
      Sg8 \o <<",">> \o Sg17 \o <<",">> \o Sg8 \o <<",">> \o Sg17
          \o <<",">> \o Sg8 \o <<",">> \o <<"x">> }

FileInputs == { NoneVal, <<"u", "d">> }

\* -s and -k: not given, or a name.
Subnet1 == <<"s", "n", "1">>
Key1 == <<"k", "1">>
SubnetInputs == { NoneVal, Subnet1 }
KeyInputs == { NoneVal, Key1 }

\* The pairs of --ebs-type and --iops-ratio tried.
EbsConfigs ==
    { <<"gp2", 0>>,
      <<"io1", -1>>, <<"io1", 0>>, <<"io1", 2>>, <<"io1", 3>>, <<"io1", 51>>,
      <<"io2", 3>> }

Sizes == { 2, 10 }

Devices == { "/dev/sdf", "/dev/sdg" }

Zones == { "az-a", "az-b" }

SnapZones == { "az-s" }

\* A snapshot that lacks the "Original Attachment" or the "Original
\* Instance" tag has NoTag for its device.
NoTag == "<no tag>"

Snapshot == [size : Sizes, dev : Devices \cup {NoTag}, az : SnapZones]

\* The answers describe_snapshots can give: up to MaxSnaps snapshots.
SnapLists == UNION { [1..n -> Snapshot] : n \in 0..MaxSnaps }

\* --------------------------------------------------------------- identities
\* The ids run_instances can give the new instance.
InstanceIds == { "i-new" }
RootVol == <<"vol", 0>>
NewVol(i) == <<"vol", i>>

VARIABLES
    \* the options (lines 739-754)
    AMI_ID, EBS_TYPE, EBS_IOPS, POWER_ON, SECURITY_GROUPS,
    USERDATA_BOOL, USERDATA_FILE, EC2_SUBNET, PROV_KEY,
    \* the script
    pc,                  \* position in the module-level sequence
    result,              \* "running", "done", "sys.exit" or "exception"
    message,             \* what the sys.exit that ended the run said
    EC2_AZ,              \* zone of the validated subnet
    RECOVERY_HOST_INSTANCE_ID, \* the id recovery_ec2_make returned
    target_ebs,          \* the volume nuke_root_ebs works on
    SECURITY_GROUP_LIST, \* the validated list
    SNAP_ATTRIBS,        \* the snapshots of the group, in iteration order
    RESTORED_EBS_INFO,   \* the volumes created so far
    attached,            \* number of volumes ebs_reconstitution_attach did
    lastPoll,            \* the last poll of recovery_ec2_check_state
    observed,            \* what the provider's answers have shown so far
    \* the provider
    calls,               \* the mutating calls issued, in order
    queried,             \* some provider call (of any kind) was issued
    refused,             \* the provider answered some call with an error
    inst,                \* lifecycle state of the recovery instance
    health,              \* its published health status
    bootvol,             \* state of its default boot volume
    newvols,             \* state of each volume created from a snapshot
    targets,             \* the instance ids the calls after the launch
                         \* named, the reads among them
    reported             \* recovery_ec2_get_connect printed the address

opts == <<AMI_ID, EBS_TYPE, EBS_IOPS, POWER_ON, SECURITY_GROUPS,
          USERDATA_BOOL, USERDATA_FILE, EC2_SUBNET, PROV_KEY>>
script == <<pc, result, message, EC2_AZ, RECOVERY_HOST_INSTANCE_ID,
            target_ebs,
            SECURITY_GROUP_LIST, SNAP_ATTRIBS,
            RESTORED_EBS_INFO, attached, lastPoll, observed>>
provider == <<inst, health, bootvol, newvols>>
vars == <<opts, script, calls, queried, refused, provider, reported, targets>>

NoPoll == [status |-> "none", info |-> "none", result |-> "none"]

Init ==
    /\ AMI_ID \in AmiInputs
    /\ \E c \in EbsConfigs : EBS_TYPE = c[1] /\ EBS_IOPS = c[2]
    /\ POWER_ON \in BOOLEAN
    /\ SECURITY_GROUPS \in SgInputs
    /\ USERDATA_BOOL \in BOOLEAN
    /\ USERDATA_FILE \in FileInputs
    /\ EC2_SUBNET \in SubnetInputs
    /\ PROV_KEY \in KeyInputs
    /\ pc = "opts"
    /\ result = "running"
    /\ message = ""
    /\ EC2_AZ = ""
    /\ RECOVERY_HOST_INSTANCE_ID = ""
    /\ target_ebs = <<>>
    /\ SECURITY_GROUP_LIST = <<>>
    /\ SNAP_ATTRIBS = <<>>
    /\ RESTORED_EBS_INFO = <<>>
    /\ attached = 0
    /\ lastPoll = NoPoll
    /\ observed = {}
    /\ calls = <<>>
    /\ queried = FALSE
    /\ refused = FALSE
    /\ inst = "none"
    /\ health = "missing"
    /\ bootvol = "none"
    /\ newvols = <<>>
    /\ targets = {}
    /\ reported = FALSE

\* ------------------------------------------------------ ways a step can end
\* The step at pc ran to its end: go on at `next`.
Goto(next) ==
    /\ pc' = next /\ result' = (IF next = "done" THEN "done" ELSE "running")
    /\ message' = message

\* sys.exit(text), or an exception nobody catches: the process is over.
StopWith(how, text) == pc' = pc /\ result' = how /\ message' = text

Stop(how) == StopWith(how, "")

\* The call names the recovery instance.
Addressed == targets' = targets \cup {RECOVERY_HOST_INSTANCE_ID}

\* How a validator's outcome ends the step.
EndOf(outcome) ==
    IF outcome = "exception" THEN "exception" ELSE "sys.exit"

\* The text a validator's sys.exit prints: which of its three complaints.
ExitText(outcome) == IF outcome = "exception" THEN "" ELSE outcome

Call(op, id, arg, ok) == [op |-> op, id |-> id, arg |-> arg, ok |-> ok]

\* --------------------------------------------------- options (lines 756-762)
\* The option handling without the test of -u and -U.
OptionHandlingNoExclusion ==
    /\ pc = "opts" /\ result = "running"
    /\ Goto(IF Truthy(USERDATA_FILE) THEN "read_file" ELSE "validate_ami")
    /\ UNCHANGED <<opts, target_ebs, RECOVERY_HOST_INSTANCE_ID, EC2_AZ,
                   SECURITY_GROUP_LIST, SNAP_ATTRIBS,
                   RESTORED_EBS_INFO, attached, lastPoll, observed,
                   calls, queried, refused, provider, reported, targets>>

\* The mutually-exclusive test of -u and -U.
OptionHandling ==
    /\ pc = "opts" /\ result = "running"
    /\ IF USERDATA_BOOL /\ Truthy(USERDATA_FILE)
       THEN Stop("sys.exit")
       ELSE Goto(IF Truthy(USERDATA_FILE) THEN "read_file" ELSE "validate_ami")
    /\ UNCHANGED <<opts, target_ebs, RECOVERY_HOST_INSTANCE_ID, EC2_AZ,
                   SECURITY_GROUP_LIST, SNAP_ATTRIBS,
                   RESTORED_EBS_INFO, attached, lastPoll, observed,
                   calls, queried, refused, provider, reported, targets>>

\* userdata_read_file: the file opens, is not there, or fails otherwise.
userdata_read_file ==
    /\ pc = "read_file" /\ result = "running"
    /\ \E r \in {"ok", "FileNotFoundError", "OSError"} :
         IF r = "ok" THEN Goto("validate_ami")
         ELSE IF r = "FileNotFoundError" THEN Stop("sys.exit")
         ELSE Stop("exception")
    /\ UNCHANGED <<opts, target_ebs, RECOVERY_HOST_INSTANCE_ID, EC2_AZ,
                   SECURITY_GROUP_LIST, SNAP_ATTRIBS,
                   RESTORED_EBS_INFO, attached, lastPoll, observed,
                   calls, queried, refused, provider, reported, targets>>

\* ------------------------------------------------ validators (lines 764-775)
\* validate_ami_id(): describe_images is called only for a well-formed id.
ValidateAmi ==
    /\ pc = "validate_ami" /\ result = "running"
    /\ \E exists \in BOOLEAN :
         LET out == validate_ami_id(AMI_ID, exists) IN
         /\ IF out = "ok" THEN Goto("validate_subnet")
            ELSE StopWith(EndOf(out), ExitText(out))
         /\ queried' = (queried \/ IdShape(AmiPrefix, AMI_ID) = "query")
         /\ refused' = (refused \/ (IdShape(AmiPrefix, AMI_ID) = "query"
                                     /\ ~exists))
         /\ observed' = IF IdShape(AmiPrefix, AMI_ID) = "query" /\ exists
                        THEN observed \cup {"ami"} ELSE observed
    /\ UNCHANGED <<opts, target_ebs, RECOVERY_HOST_INSTANCE_ID, EC2_AZ,
                   SECURITY_GROUP_LIST, SNAP_ATTRIBS,
                   RESTORED_EBS_INFO, attached, lastPoll,
                   calls, provider, reported, targets>>

\* validate_subnet(EC2_SUBNET): the zone of the subnet, or sys.exit.  The
\* query for a subnet that was not given (None) is always refused, and the
\* message of the handler cannot be built ("..." + None: TypeError); an
\* answer with no subnet in it has no [0] (IndexError).
validate_subnet ==
    /\ pc = "validate_subnet" /\ result = "running"
    /\ IF EC2_SUBNET = NoneVal
       THEN /\ Stop("exception")
            /\ refused' = TRUE
            /\ UNCHANGED <<EC2_AZ, observed>>
       ELSE \/ /\ \E az \in Zones : EC2_AZ' = az
               /\ Goto("validate_sg")
               /\ observed' = observed \cup {"subnet"}
               /\ UNCHANGED refused
            \/ /\ Stop("exception")
               /\ observed' = observed \cup {"subnet"}
               /\ UNCHANGED <<EC2_AZ, refused>>
            \/ /\ StopWith("sys.exit", "subnet not found")
               /\ refused' = TRUE
               /\ UNCHANGED <<EC2_AZ, observed>>
    /\ queried' = TRUE
    /\ UNCHANGED <<opts, target_ebs, RECOVERY_HOST_INSTANCE_ID,
                   SECURITY_GROUP_LIST, SNAP_ATTRIBS,
                   RESTORED_EBS_INFO, attached, lastPoll,
                   calls, provider, reported, targets>>

\* SECURITY_GROUP_LIST = validate_security_group()
ValidateSecurityGroup ==
    /\ pc = "validate_sg" /\ result = "running"
    /\ \E bad \in 0..MaxGroups :
         LET out == validate_security_group(SECURITY_GROUPS, bad) IN
         /\ IF out.outcome = "ok"
            THEN Goto("validate_key") /\ SECURITY_GROUP_LIST' = out.list
            ELSE /\ StopWith(EndOf(out.outcome), ExitText(out.outcome))
                 /\ UNCHANGED SECURITY_GROUP_LIST
         /\ queried' = (queried \/ out.queries > 0)
         /\ refused' = (refused \/ (SECURITY_GROUPS # NoneVal /\ bad > 0
              /\ bad <= Len(Truncate(Split(SECURITY_GROUPS)))
              /\ out.queries >= bad))
         /\ observed' =
              IF SECURITY_GROUPS # NoneVal
                 /\ out.queries = Len(Truncate(Split(SECURITY_GROUPS)))
                 /\ (bad = 0 \/ bad > out.queries)
              THEN observed \cup {"sg"} ELSE observed
    /\ UNCHANGED <<opts, target_ebs, RECOVERY_HOST_INSTANCE_ID, EC2_AZ,
                   SNAP_ATTRIBS,
                   RESTORED_EBS_INFO, attached, lastPoll,
                   calls, provider, reported, targets>>

\* validate_provision_key(): describe_key_pairs succeeds or sys.exit.  The
\* query for a key that was not given (None) is always refused, and the
\* message of the handler cannot be built ("..." + None: TypeError).
validate_provision_key ==
    /\ pc = "validate_key" /\ result = "running"
    /\ \E ok \in BOOLEAN :
         /\ PROV_KEY = NoneVal => ~ok
         /\ IF ok THEN Goto("snap_info")
            ELSE IF PROV_KEY = NoneVal THEN Stop("exception")
            ELSE Stop("sys.exit")
         /\ refused' = (refused \/ ~ok)
         /\ observed' = IF ok THEN observed \cup {"key"} ELSE observed
    /\ queried' = TRUE
    /\ UNCHANGED <<opts, target_ebs, RECOVERY_HOST_INSTANCE_ID, EC2_AZ,
                   SECURITY_GROUP_LIST, SNAP_ATTRIBS,
                   RESTORED_EBS_INFO, attached, lastPoll,
                   calls, provider, reported, targets>>

\* ------------------------------------------- snapshot inventory (line 778)
\* ebs_get_snap_info without the test for an empty answer.
ebs_get_snap_info_unchecked(snaps) == "return"

\* ebs_get_snap_info: what it does with the answer of describe_snapshots.
ebs_get_snap_info(snaps) ==
    IF snaps = <<>> THEN "sys.exit" ELSE "return"

\* SNAP_ATTRIBS = ebs_snap_tags_to_attribs(SNAP_SEARCH_VAL); a ClientError
\* of describe_snapshots is not caught.  The loop of ebs_snap_reconstitute
\* has nothing to do for an empty mapping.
ebs_snap_tags_to_attribs ==
    /\ pc = "snap_info" /\ result = "running"
    /\ \/ \E snaps \in SnapLists :
            /\ IF ebs_get_snap_info(snaps) = "sys.exit"
               THEN Stop("sys.exit") /\ UNCHANGED SNAP_ATTRIBS
               ELSE /\ Goto(IF snaps = <<>> THEN "make" ELSE "reconstitute")
                    /\ SNAP_ATTRIBS' = snaps
            /\ observed' = observed \cup
                 {IF snaps = <<>> THEN "no_snapshots" ELSE "snapshots"}
            /\ UNCHANGED refused
       \/ /\ Stop("exception")
          /\ refused' = TRUE
          /\ UNCHANGED <<SNAP_ATTRIBS, observed>>
    /\ queried' = TRUE
    /\ UNCHANGED <<opts, target_ebs, RECOVERY_HOST_INSTANCE_ID, EC2_AZ,
                   SECURITY_GROUP_LIST,
                   RESTORED_EBS_INFO, attached, lastPoll,
                   calls, provider, reported, targets>>

\* ------------------------------------------ volume reconstructor (line 784)
\* recovery_ec2_get_az taking the zone of the first snapshot in every case.
recovery_ec2_get_az_of_snapshot(ec2_az, snapshot_attributes) ==
    snapshot_attributes[1].az

\* recovery_ec2_get_az: the subnet's zone unless it is empty.
recovery_ec2_get_az(ec2_az, snapshot_attributes) ==
    IF ec2_az = "" THEN snapshot_attributes[1].az ELSE ec2_az

MinIo1Size == 4
MinRatio == 3
MaxRatio == 50
MinIops == 100
MaxIops == 64000

\* validate_io1_config without the tests of the ratio.
validate_io1_config_any_ratio(snap_size, ratio) ==
    IF snap_size < MinIo1Size THEN [outcome |-> "ValueError", iops |-> 0]
    ELSE [outcome |-> "ok",
          iops |-> IF snap_size * ratio < MinIops THEN MinIops
                   ELSE IF snap_size * ratio > MaxIops THEN MaxIops
                   ELSE snap_size * ratio]

\* validate_io1_config without the lower limit of the provisionable range.
validate_io1_config_no_floor(snap_size, ratio) ==
    IF snap_size < MinIo1Size THEN [outcome |-> "ValueError", iops |-> 0]
    ELSE IF ratio > 0
    THEN IF ratio < MinRatio \/ ratio > MaxRatio
         THEN [outcome |-> "sys.exit", iops |-> 0]
         ELSE [outcome |-> "ok",
               iops |-> IF snap_size * ratio > MaxIops THEN MaxIops
                        ELSE snap_size * ratio]
    ELSE [outcome |-> "sys.exit", iops |-> 0]

\* validate_io1_config(snap_size), with EBS_IOPS as the ratio.
validate_io1_config(snap_size, ratio) ==
    IF snap_size < MinIo1Size THEN [outcome |-> "ValueError", iops |-> 0]
    ELSE IF ratio > 0
    THEN IF ratio < MinRatio \/ ratio > MaxRatio
         THEN [outcome |-> "sys.exit", iops |-> 0]
         ELSE [outcome |-> "ok",
               iops |-> IF snap_size * ratio < MinIops THEN MinIops
                        ELSE IF snap_size * ratio > MaxIops THEN MaxIops
                        ELSE snap_size * ratio]
    ELSE [outcome |-> "sys.exit", iops |-> 0]

\* What one pass of the loop of ebs_snap_reconstitute does before it calls
\* the provider: "create" (with the IOPS to ask for, 0 for none) or
\* "sys.exit".
ReconstitutePlan(ebs_type, ratio, snap) ==
    IF ebs_type = "io1"
    THEN LET v == validate_io1_config(snap.size, ratio) IN
         IF v.outcome = "ok" THEN [do |-> "create", iops |-> v.iops]
         ELSE [do |-> "sys.exit", iops |-> 0]
    ELSE IF ebs_type = "gp2" THEN [do |-> "create", iops |-> 0]
    ELSE [do |-> "sys.exit", iops |-> 0]

\* The except clauses of ebs_snap_reconstitute with "continue" in them: the
\* loop is left for the launch.
CreateRejectedSkips == Goto("make")

\* The except clauses of ebs_snap_reconstitute: sys.exit("FAILED. ...").
CreateRejected == StopWith("sys.exit", "FAILED")

\* One pass of the loop of ebs_snap_reconstitute, for the next snapshot: the
\* two tags are read first (KeyError when one is missing).
ebs_snap_reconstitute ==
    /\ pc = "reconstitute" /\ result = "running"
    /\ LET i == Len(RESTORED_EBS_INFO) + 1
           snap == SNAP_ATTRIBS[i]
           plan == ReconstitutePlan(EBS_TYPE, EBS_IOPS, snap)
           req == [snap |-> i, dev |-> snap.dev, iops |-> plan.iops,
                   type |-> EBS_TYPE,
                   az |-> recovery_ec2_get_az(EC2_AZ, SNAP_ATTRIBS)]
       IN
       IF snap.dev = NoTag
       THEN /\ Stop("exception")
            /\ UNCHANGED <<RESTORED_EBS_INFO, calls, queried, refused, newvols>>
       ELSE IF plan.do = "sys.exit"
       THEN /\ StopWith("sys.exit", "volume not requested")
            /\ UNCHANGED <<RESTORED_EBS_INFO, calls, queried, refused, newvols>>
       ELSE \E ok \in BOOLEAN :
            /\ calls' = Append(calls, Call("create_volume", NewVol(i), req, ok))
            /\ queried' = TRUE
            /\ refused' = (refused \/ ~ok)
            /\ IF ok
               THEN /\ RESTORED_EBS_INFO' = Append(RESTORED_EBS_INFO,
                           [VolumeId |-> NewVol(i), dev |-> snap.dev])
                    /\ newvols' = Append(newvols, "creating")
                    /\ Goto(IF i = Len(SNAP_ATTRIBS)
                            THEN "make" ELSE "reconstitute")
               ELSE /\ CreateRejected
                    /\ UNCHANGED <<RESTORED_EBS_INFO, newvols>>
    /\ UNCHANGED <<opts, target_ebs, RECOVERY_HOST_INSTANCE_ID, EC2_AZ,
                   SECURITY_GROUP_LIST, SNAP_ATTRIBS,
                   attached, lastPoll, observed, inst, health, bootvol,
                   reported, targets>>

\* ------------------------------------------- instance orchestrator: launch
\* RECOVERY_HOST_INSTANCE_ID = recovery_ec2_make()["Instances"][0][...]
recovery_ec2_make ==
    /\ pc = "make" /\ result = "running"
    /\ \E ok \in BOOLEAN, id \in InstanceIds :
         /\ calls' = Append(calls, Call("run_instances", id,
                                        [az |-> EC2_AZ, count |-> 1], ok))
         /\ refused' = (refused \/ ~ok)
         /\ IF ok
            THEN /\ Goto("wait_online")
                 /\ RECOVERY_HOST_INSTANCE_ID' = id
                 /\ inst' = "pending" /\ bootvol' = "in-use"
            ELSE /\ Stop("exception")
                 /\ UNCHANGED <<RECOVERY_HOST_INSTANCE_ID, inst, bootvol>>
    /\ queried' = TRUE
    /\ UNCHANGED <<opts, target_ebs, EC2_AZ,
                   SECURITY_GROUP_LIST, SNAP_ATTRIBS,
                   RESTORED_EBS_INFO, attached, lastPoll, observed,
                   health, newvols, reported, targets>>

\* --------------------------------------------------------- the state waits
\* recovery_ec2_check_state looking at the lifecycle state alone.
recovery_ec2_check_state_lifecycle(status, info) ==
    IF status = "ClientError" THEN "ValueError"
    ELSE IF info = "ClientError" THEN "ValueError"
    ELSE IF info = "running" THEN "ok"
    ELSE info

\* recovery_ec2_check_state: the answers of describe_instance_status (the
\* health status, "missing" for an empty list, or "ClientError") and of
\* describe_instances (the lifecycle state or "ClientError") give the state
\* it returns, or the ValueError it raises.
recovery_ec2_check_state(status, info) ==
    IF status = "ClientError" THEN "ValueError"
    ELSE IF info = "ClientError" THEN "ValueError"
    ELSE IF info = "running"
    THEN (IF status = "missing" THEN "TRANSITIONING" ELSE status)
    ELSE info

\* The loop of recovery_ec2_monitor_transition with "break" in its except
\* clause.
TransitionDoneOnError(ec2_state, target_status) ==
    ec2_state = "ValueError" \/ ec2_state = target_status

\* The loop of recovery_ec2_monitor_transition left after the first poll
\* that raised nothing, as a wait that has run out of time would be.
TransitionGivesUp(ec2_state, target_status) ==
    ec2_state # "ValueError"

\* The test that ends the loop of recovery_ec2_monitor_transition.
TransitionDone(ec2_state, target_status) ==
    ec2_state # "ValueError" /\ ec2_state = target_status

\* What the provider answers to describe_instance_status: only a running
\* instance has an entry.
StatusAnswer == IF inst = "running" THEN health ELSE "missing"

\* One pass of the loop of recovery_ec2_monitor_transition at position `at`:
\* a poll, and then either the break or the sleep.
recovery_ec2_monitor_transition(at, target_status, next) ==
    /\ pc = at /\ result = "running"
    /\ \E sErr, iErr \in BOOLEAN :
         LET status == IF sErr THEN "ClientError" ELSE StatusAnswer
             info == IF sErr THEN "none"
                     ELSE IF iErr THEN "ClientError" ELSE inst
             state == recovery_ec2_check_state(status, info)
         IN
         /\ lastPoll' = [status |-> status, info |-> info, result |-> state]
         /\ refused' = (refused \/ "ClientError" \in {status, info})
         /\ IF TransitionDone(state, target_status)
            THEN Goto(next) ELSE Goto(at)
         /\ observed' =
              IF target_status = "ok" /\ info = "running" /\ status = "ok"
              THEN observed \cup {at}
              ELSE IF target_status = "stopped" /\ info = "stopped"
              THEN observed \cup {at}
              ELSE observed
    /\ queried' = TRUE
    /\ Addressed
    /\ UNCHANGED <<opts, target_ebs, RECOVERY_HOST_INSTANCE_ID, EC2_AZ,
                   SECURITY_GROUP_LIST, SNAP_ATTRIBS,
                   RESTORED_EBS_INFO, attached, calls, provider, reported>>

\* recovery_ec2_monitor_transition(RECOVERY_HOST_INSTANCE_ID, "online", "ok")
AwaitOnline == recovery_ec2_monitor_transition("wait_online", "ok", "stop")

\* recovery_ec2_stop: a rejected stop_instances is not caught.
recovery_ec2_stop ==
    /\ pc = "stop" /\ result = "running"
    /\ \E ok \in BOOLEAN :
         /\ calls' = Append(calls, Call("stop_instances",
                                        RECOVERY_HOST_INSTANCE_ID, "", ok))
         /\ refused' = (refused \/ ~ok)
         /\ IF ok
            THEN /\ Goto("wait_offline")
                 /\ inst' = (IF inst \in {"running", "pending"}
                             THEN "stopping" ELSE inst)
                 /\ health' = "missing"
            ELSE /\ Stop("exception")
                 /\ UNCHANGED <<inst, health>>
    /\ queried' = TRUE
    /\ Addressed
    /\ UNCHANGED <<opts, target_ebs, RECOVERY_HOST_INSTANCE_ID, EC2_AZ,
                   SECURITY_GROUP_LIST, SNAP_ATTRIBS,
                   RESTORED_EBS_INFO, attached, lastPoll, observed,
                   bootvol, newvols, reported>>

\* recovery_ec2_monitor_transition(..., "offline", "stopped")
AwaitOffline == recovery_ec2_monitor_transition("wait_offline", "stopped", "nuke")

\* ------------------------------------------------- nuke_root_ebs (line 805)
\* The State that describe_volumes reports for the boot volume: a volume
\* that is being detached is still "in-use".
VolumeState == IF bootvol = "detaching" THEN "in-use" ELSE bootvol

\* What describe_volumes answers for the boot volume: its state, "NotFound"
\* once it is gone, or (err) a ClientError of another kind.
VolumeAnswer(err) ==
    IF bootvol = "gone" THEN "NotFound"
    ELSE IF err THEN "ClientError" ELSE VolumeState

\* The volumes describe_instances lists for the recovery instance, in the
\* order of its block-device mappings: the boot volume of the image while
\* it is attached, then the volumes attached since.
BlockDeviceMappings ==
    (IF bootvol \in {"in-use", "detaching"} THEN <<RootVol>> ELSE <<>>)
    \o [i \in 1..attached |-> RESTORED_EBS_INFO[i].VolumeId]

\* nuke_root_ebs taking the first of the volumes made from the snapshots.
TargetEbsRestored == RESTORED_EBS_INFO[1].VolumeId

\* target_ebs: ["BlockDeviceMappings"][0]["Ebs"]["VolumeId"]
TargetEbs == BlockDeviceMappings[1]

\* The first block-device mapping is read and its volume detached; neither
\* call is guarded.  describe_instances is refused, or answers with no
\* block-device mapping at all ([0]: IndexError), or with the mappings.
NukeDetach ==
    /\ pc = "nuke" /\ result = "running"
    /\ \E answer \in {"ClientError", "unmapped", "mapped"}, ok \in BOOLEAN :
         IF answer = "ClientError"
         THEN Stop("exception") /\ refused' = TRUE
              /\ UNCHANGED <<calls, bootvol, target_ebs>>
         ELSE IF answer = "unmapped"
         THEN Stop("exception")
              /\ UNCHANGED <<calls, bootvol, target_ebs, refused>>
         ELSE /\ target_ebs' = TargetEbs
              /\ calls' = Append(calls, Call("detach_volume", TargetEbs, "", ok))
              /\ refused' = (refused \/ ~ok)
              /\ IF ok
                 THEN Goto("nuke_wait_available") /\ bootvol' = "detaching"
                 ELSE Stop("exception") /\ UNCHANGED bootvol
    /\ queried' = TRUE
    /\ Addressed
    /\ UNCHANGED <<opts, RECOVERY_HOST_INSTANCE_ID, EC2_AZ,
                   SECURITY_GROUP_LIST, SNAP_ATTRIBS,
                   RESTORED_EBS_INFO, attached, lastPoll, observed,
                   inst, health, newvols, reported>>

\* One pass of "while describe_volumes(...)State != available": the test,
\* and in the body a second describe_volumes for the message.
NukeWaitAvailable ==
    /\ pc = "nuke_wait_available" /\ result = "running"
    /\ \E e1, e2 \in BOOLEAN :
         LET first == VolumeAnswer(e1) IN
         IF first \in {"ClientError", "NotFound"}
         THEN Stop("exception") /\ refused' = TRUE /\ UNCHANGED observed
         ELSE IF first = "available"
         THEN /\ Goto("nuke_delete")
              /\ observed' = observed \cup {"available"}
              /\ UNCHANGED refused
         ELSE IF VolumeAnswer(e2) \in {"ClientError", "NotFound"}
         THEN Stop("exception") /\ refused' = TRUE /\ UNCHANGED observed
         ELSE Goto("nuke_wait_available") /\ UNCHANGED <<observed, refused>>
    /\ queried' = TRUE
    /\ UNCHANGED <<opts, target_ebs, RECOVERY_HOST_INSTANCE_ID, EC2_AZ,
                   SECURITY_GROUP_LIST, SNAP_ATTRIBS,
                   RESTORED_EBS_INFO, attached, lastPoll,
                   calls, provider, reported, targets>>

\* EC2_CLIENT.delete_volume(VolumeId=target_ebs)
NukeDelete ==
    /\ pc = "nuke_delete" /\ result = "running"
    /\ \E ok \in BOOLEAN :
         /\ calls' = Append(calls, Call("delete_volume", target_ebs, "", ok))
         /\ refused' = (refused \/ ~ok)
         /\ IF ok
            THEN Goto("nuke_wait_gone") /\ bootvol' = "deleting"
            ELSE Stop("exception") /\ UNCHANGED bootvol
    /\ queried' = TRUE
    /\ UNCHANGED <<opts, target_ebs, RECOVERY_HOST_INSTANCE_ID, EC2_AZ,
                   SECURITY_GROUP_LIST, SNAP_ATTRIBS,
                   RESTORED_EBS_INFO, attached, lastPoll, observed,
                   inst, health, newvols, reported, targets>>

\* The except clause of the last loop of nuke_root_ebs: the answers of
\* describe_volumes that end the loop.
DeleteConfirmed(answer) == answer \in {"NotFound", "ClientError"}

\* One pass of the "wait for it to go bye-bye" loop.
NukeWaitGone ==
    /\ pc = "nuke_wait_gone" /\ result = "running"
    /\ \E err \in BOOLEAN :
         LET answer == VolumeAnswer(err) IN
         /\ IF DeleteConfirmed(answer)
            THEN Goto("attach") ELSE Goto("nuke_wait_gone")
         /\ observed' = IF answer = "NotFound"
                        THEN observed \cup {"gone"} ELSE observed
         /\ refused' = (refused \/ answer = "ClientError")
    /\ queried' = TRUE
    /\ UNCHANGED <<opts, target_ebs, RECOVERY_HOST_INSTANCE_ID, EC2_AZ,
                   SECURITY_GROUP_LIST, SNAP_ATTRIBS,
                   RESTORED_EBS_INFO, attached, lastPoll,
                   calls, provider, reported, targets>>

\* ----------------------------------------- the steps after the boot volume
\* The recovery instance powered on whatever the option says.
AfterCloneAlways == "power_on"

\* The module-level "if" tests of lines 810-823: the next step to run after
\* each of the optional ones.
AfterClone == IF POWER_ON THEN "power_on" ELSE "done"
AfterFile == IF USERDATA_BOOL THEN "userdata_clone" ELSE AfterClone
AfterAccess == IF Truthy(USERDATA_FILE) THEN "userdata_file" ELSE AfterFile
AfterAttach == IF Truthy(SECURITY_GROUPS) THEN "add_access" ELSE AfterAccess

\* The devices of the volumes the provider has attached to the instance.
DevicesInUse ==
    { calls[k].arg : k \in { j \in 1..Len(calls) :
                               calls[j].op = "attach_volume" /\ calls[j].ok } }

\* The attachment point read from the tags of the first volume.
AttachPointOfFirst(ebs_object) == RESTORED_EBS_INFO[1].dev

\* attach_point: the "Original Attachment" tag of the volume.
AttachPoint(ebs_object) == ebs_object.dev

\* The new volumes the provider has finished creating.
Available == { NewVol(i) : i \in { j \in 1..Len(newvols) :
                                    newvols[j] = "available" } }

\* One pass of the loop of ebs_reconstitution_attach; the provider refuses
\* a device that is taken and a volume that is not available, and may
\* refuse any call.
ebs_reconstitution_attach ==
    /\ pc = "attach" /\ result = "running"
    /\ LET i == attached + 1
           ebs_object == RESTORED_EBS_INFO[i]
           attach_point == AttachPoint(ebs_object)
       IN
       \E ok \in BOOLEAN :
         /\ ok => /\ attach_point \notin DevicesInUse
                  /\ ebs_object.VolumeId \in Available
         /\ calls' = Append(calls, Call("attach_volume", ebs_object.VolumeId,
                                        attach_point, ok))
         /\ refused' = (refused \/ ~ok)
         /\ IF ok
            THEN /\ attached' = i
                 /\ Goto(IF i = Len(RESTORED_EBS_INFO)
                         THEN AfterAttach ELSE "attach")
            ELSE Stop("exception") /\ UNCHANGED attached
    /\ queried' = TRUE
    /\ Addressed
    /\ UNCHANGED <<opts, target_ebs, RECOVERY_HOST_INSTANCE_ID, EC2_AZ,
                   SECURITY_GROUP_LIST, SNAP_ATTRIBS,
                   RESTORED_EBS_INFO, lastPoll, observed, provider, reported>>

\* The except clause of recovery_ec2_add_access: its message names
\* security_group, which is bound nowhere in that scope (NameError).
AddAccessRejected == Stop("exception")

\* recovery_ec2_add_access(RECOVERY_HOST_INSTANCE_ID, SECURITY_GROUP_LIST)
recovery_ec2_add_access ==
    /\ pc = "add_access" /\ result = "running"
    /\ \E ok \in BOOLEAN :
         /\ calls' = Append(calls, Call("modify_groups",
                                        RECOVERY_HOST_INSTANCE_ID,
                                        SECURITY_GROUP_LIST, ok))
         /\ refused' = (refused \/ ~ok)
         /\ IF ok THEN Goto(AfterAccess) ELSE AddAccessRejected
    /\ queried' = TRUE
    /\ Addressed
    /\ UNCHANGED <<opts, target_ebs, RECOVERY_HOST_INSTANCE_ID, EC2_AZ,
                   SECURITY_GROUP_LIST, SNAP_ATTRIBS,
                   RESTORED_EBS_INFO, attached, lastPoll, observed,
                   provider, reported>>

\* userdata_inject(RECOVERY_HOST_INSTANCE_ID, USERDATA_CONTENT)
userdata_inject ==
    /\ pc = "userdata_file" /\ result = "running"
    /\ \E ok \in BOOLEAN :
         /\ calls' = Append(calls, Call("modify_userdata",
                                        RECOVERY_HOST_INSTANCE_ID,
                                        "file", ok))
         /\ refused' = (refused \/ ~ok)
         /\ IF ok THEN Goto(AfterFile) ELSE Stop("sys.exit")
    /\ queried' = TRUE
    /\ Addressed
    /\ UNCHANGED <<opts, target_ebs, RECOVERY_HOST_INSTANCE_ID, EC2_AZ,
                   SECURITY_GROUP_LIST, SNAP_ATTRIBS,
                   RESTORED_EBS_INFO, attached, lastPoll, observed,
                   provider, reported>>

\* The instance the snapshots were taken from.
OriginalInstance == "i-orig"

\* userdata_clone injecting into the instance it read the userData from.
CloneTargetOriginal == OriginalInstance

\* userdata_clone: userdata_inject(recovery_host_instance_id, ...).
CloneTarget == RECOVERY_HOST_INSTANCE_ID

\* userdata_clone: the source instance's userData is read with
\* describe_instance_attribute(InstanceId=orig_instance_id) ("KeyError": the
\* snapshot has no "Source Instance Id" tag and nothing is asked;
\* "ClientError": the message is printed and userdata_text is unbound;
\* "unreadable": the answer has no "Value" or one that is not base64, a
\* KeyError or binascii.Error the except clause does not catch) and
\* injected into the recovery instance.
userdata_clone ==
    /\ pc = "userdata_clone" /\ result = "running"
    /\ \E source \in {"ok", "KeyError", "ClientError", "unreadable"} :
         IF source # "ok"
         THEN /\ Stop("exception")
              /\ queried' = (queried \/ source # "KeyError")
              /\ refused' = (refused \/ source = "ClientError")
              /\ targets' = IF source = "KeyError"
                            THEN targets
                            ELSE targets \cup {OriginalInstance}
              /\ UNCHANGED calls
         ELSE \E ok \in BOOLEAN :
              /\ calls' = Append(calls, Call("modify_userdata", CloneTarget,
                                             "clone", ok))
              /\ targets' = targets \cup {OriginalInstance, CloneTarget}
              /\ refused' = (refused \/ ~ok)
              /\ queried' = TRUE
              /\ IF ok THEN Goto(AfterClone) ELSE Stop("sys.exit")
    /\ UNCHANGED <<opts, target_ebs, RECOVERY_HOST_INSTANCE_ID, EC2_AZ,
                   SECURITY_GROUP_LIST, SNAP_ATTRIBS,
                   RESTORED_EBS_INFO, attached, lastPoll, observed,
                   provider, reported>>

\* recovery_ec2_power_on: a rejected start_instances is not caught.
recovery_ec2_power_on ==
    /\ pc = "power_on" /\ result = "running"
    /\ \E ok \in BOOLEAN :
         /\ calls' = Append(calls, Call("start_instances",
                                        RECOVERY_HOST_INSTANCE_ID, "", ok))
         /\ refused' = (refused \/ ~ok)
         /\ IF ok
            THEN /\ Goto("wait_final")
                 /\ inst' = (IF inst = "stopped" THEN "pending" ELSE inst)
            ELSE Stop("exception") /\ UNCHANGED inst
    /\ queried' = TRUE
    /\ Addressed
    /\ UNCHANGED <<opts, target_ebs, RECOVERY_HOST_INSTANCE_ID, EC2_AZ,
                   SECURITY_GROUP_LIST, SNAP_ATTRIBS,
                   RESTORED_EBS_INFO, attached, lastPoll, observed,
                   health, bootvol, newvols, reported>>

\* The wait of line 825.
AwaitFinal == recovery_ec2_monitor_transition("wait_final", "ok", "connect")

\* recovery_ec2_get_connect: describe_instances, then the two prints.
recovery_ec2_get_connect ==
    /\ pc = "connect" /\ result = "running"
    /\ \E ok \in BOOLEAN :
         /\ IF ok THEN Goto("done") /\ reported' = TRUE
            ELSE Stop("exception") /\ UNCHANGED reported
         /\ refused' = (refused \/ ~ok)
    /\ queried' = TRUE
    /\ Addressed
    /\ UNCHANGED <<opts, target_ebs, RECOVERY_HOST_INSTANCE_ID, EC2_AZ,
                   SECURITY_GROUP_LIST, SNAP_ATTRIBS,
                   RESTORED_EBS_INFO, attached, lastPoll, observed,
                   calls, provider>>

\* ------------------------------------------------------------ the provider
HealthValues == {"missing", "initializing", "ok", "impaired"}

\* The instance finishes a transition it was asked for.
ProviderInstance ==
    /\ \/ inst = "pending" /\ inst' = "running"
       \/ inst = "stopping" /\ inst' = "stopped"
    /\ health' = "missing"
    /\ UNCHANGED <<opts, script, calls, queried, refused, bootvol, newvols,
                   reported, targets>>

\* The health status of a running instance changes.
ProviderHealth ==
    /\ inst = "running"
    /\ \E h \in HealthValues \ {health} : health' = h
    /\ UNCHANGED <<opts, script, calls, queried, refused, inst, bootvol,
                   newvols, reported, targets>>

\* The boot volume finishes its detachment or its deletion.
ProviderVolume ==
    /\ \/ bootvol = "detaching" /\ bootvol' = "available"
       \/ bootvol = "deleting" /\ bootvol' = "gone"
    /\ UNCHANGED <<opts, script, calls, queried, refused, inst, health,
                   newvols, reported, targets>>

\* A volume created from a snapshot goes from "creating" to "available".
ProviderNewVolume ==
    /\ \E i \in 1..Len(newvols) :
         /\ newvols[i] = "creating"
         /\ newvols' = [newvols EXCEPT ![i] = "available"]
    /\ UNCHANGED <<opts, script, calls, queried, refused, inst, health,
                   bootvol, reported, targets>>

Next ==
    \/ OptionHandling
    \/ userdata_read_file
    \/ ValidateAmi
    \/ validate_subnet
    \/ ValidateSecurityGroup
    \/ validate_provision_key
    \/ ebs_snap_tags_to_attribs
    \/ ebs_snap_reconstitute
    \/ recovery_ec2_make
    \/ AwaitOnline
    \/ recovery_ec2_stop
    \/ AwaitOffline
    \/ NukeDetach
    \/ NukeWaitAvailable
    \/ NukeDelete
    \/ NukeWaitGone
    \/ ebs_reconstitution_attach
    \/ recovery_ec2_add_access
    \/ userdata_inject
    \/ userdata_clone
    \/ recovery_ec2_power_on
    \/ AwaitFinal
    \/ recovery_ec2_get_connect
    \/ ProviderInstance
    \/ ProviderHealth
    \/ ProviderVolume
    \/ ProviderNewVolume

Spec == Init /\ [][Next]_vars

\* ------------------------------------- the volume reconstructor on its own
\* The snapshot sizes and the IOPS ratios the reconstructor is tried with.
IopsSizes == { 2, 4, 10, 33, 34, 1280, 1281, 2000 }
IopsRatios == (MinRatio - 1)..(MaxRatio + 1)

\* The run at line 784, about to call ebs_snap_reconstitute for a group of
\* one snapshot with --ebs-type io1: the validators have passed, no
\* mutating call has been made.
InitIops ==
    /\ AMI_ID = AmiPrefix \o HexStr(8)
    /\ EBS_TYPE = "io1"
    /\ EBS_IOPS \in IopsRatios
    /\ POWER_ON = FALSE
    /\ SECURITY_GROUPS = Sg8
    /\ USERDATA_BOOL = FALSE
    /\ USERDATA_FILE = NoneVal
    /\ EC2_SUBNET = Subnet1
    /\ PROV_KEY = Key1
    /\ pc = "reconstitute"
    /\ result = "running"
    /\ message = ""
    /\ EC2_AZ \in Zones
    /\ RECOVERY_HOST_INSTANCE_ID = ""
    /\ target_ebs = <<>>
    /\ SECURITY_GROUP_LIST = <<Sg8>>
    /\ \E size \in IopsSizes, dev \in Devices, az \in SnapZones :
         SNAP_ATTRIBS = <<[size |-> size, dev |-> dev, az |-> az]>>
    /\ RESTORED_EBS_INFO = <<>>
    /\ attached = 0
    /\ lastPoll = NoPoll
    /\ observed = {"ami", "subnet", "sg", "key", "snapshots"}
    /\ calls = <<>>
    /\ queried = TRUE
    /\ refused = FALSE
    /\ inst = "none"
    /\ health = "missing"
    /\ bootvol = "none"
    /\ newvols = <<>>
    /\ targets = {}
    /\ reported = FALSE

NextIops ==
    \/ ebs_snap_reconstitute
    \/ ProviderNewVolume

SpecIops == InitIops /\ [][NextIops]_vars

\* ---------------------------------- the security-group validator on its own
\* ",".join(list)
RECURSIVE Join(_)
Join(list) ==
    IF Len(list) = 1 THEN list[1]
    ELSE list[1] \o <<",">> \o Join(Tail(list))

\* The entries the lists are made of: two well-formed ids and a malformed one.
SgEntries == { Sg8, Sg17, <<"x">> }

\* Every -g argument of 1 to MaxEntries entries.
SgLists == { Join(l) : l \in UNION { [1..n -> SgEntries] : n \in 1..MaxEntries } }

\* The run at line 772, about to call validate_security_group: the image and
\* the subnet have been validated.
InitSg ==
    /\ AMI_ID = AmiPrefix \o HexStr(8)
    /\ EBS_TYPE = "gp2"
    /\ EBS_IOPS = 0
    /\ POWER_ON = FALSE
    /\ SECURITY_GROUPS \in SgLists
    /\ USERDATA_BOOL = FALSE
    /\ USERDATA_FILE = NoneVal
    /\ EC2_SUBNET = Subnet1
    /\ PROV_KEY = Key1
    /\ pc = "validate_sg"
    /\ result = "running"
    /\ message = ""
    /\ EC2_AZ = "az-a"
    /\ RECOVERY_HOST_INSTANCE_ID = ""
    /\ target_ebs = <<>>
    /\ SECURITY_GROUP_LIST = <<>>
    /\ SNAP_ATTRIBS = <<>>
    /\ RESTORED_EBS_INFO = <<>>
    /\ attached = 0
    /\ lastPoll = NoPoll
    /\ observed = {"ami", "subnet"}
    /\ calls = <<>>
    /\ queried = TRUE
    /\ refused = FALSE
    /\ inst = "none"
    /\ health = "missing"
    /\ bootvol = "none"
    /\ newvols = <<>>
    /\ targets = {}
    /\ reported = FALSE

NextSg ==
    \/ ValidateSecurityGroup
    \/ validate_provision_key

SpecSg == InitSg /\ [][NextSg]_vars

\* ------------------------------------------- the id validators on their own
\* The prefix with its last character replaced.
Misspelt(prefix) == SubSeq(prefix, 1, Len(prefix) - 1) \o <<"_">>

\* Identifiers around the two accepted shapes: every length next to 8 and
\* 17, a misspelt or displaced prefix, an upper-case letter, a letter past f,
\* a bad last character, the empty string.
IdInputs(prefix) ==
    { prefix \o HexStr(n) : n \in {0, 7, 8, 9, 16, 17, 18} }
    \cup { <<>>,
           Misspelt(prefix) \o HexStr(8),
           Misspelt(prefix) \o HexStr(17),
           <<"x">> \o prefix \o HexStr(7),
           prefix \o <<"A">> \o HexStr(7),
           prefix \o HexStr(7) \o <<"g">>,
           prefix \o HexStr(16) \o <<"F">>,
           prefix \o HexStr(16) \o <<"-">> }

SgIdInputs ==
    IdInputs(SgPrefix)
    \cup { Sg8 \o <<",">> \o Sg17,
           Sg17 \o <<",">> \o SgPrefix \o HexStr(9),
           Sg8 \o <<",">> \o SgPrefix \o <<"A">> \o HexStr(7) }

\* The run at line 766, about to call validate_ami_id, with no boot
\* configuration asked for.
InitIds ==
    /\ AMI_ID \in IdInputs(AmiPrefix)
    /\ EBS_TYPE = "gp2"
    /\ EBS_IOPS = 0
    /\ POWER_ON = FALSE
    /\ SECURITY_GROUPS \in SgIdInputs
    /\ USERDATA_BOOL = FALSE
    /\ USERDATA_FILE = NoneVal
    /\ EC2_SUBNET = Subnet1
    /\ PROV_KEY = Key1
    /\ pc = "validate_ami"
    /\ result = "running"
    /\ message = ""
    /\ EC2_AZ = ""
    /\ RECOVERY_HOST_INSTANCE_ID = ""
    /\ target_ebs = <<>>
    /\ SECURITY_GROUP_LIST = <<>>
    /\ SNAP_ATTRIBS = <<>>
    /\ RESTORED_EBS_INFO = <<>>
    /\ attached = 0
    /\ lastPoll = NoPoll
    /\ observed = {}
    /\ calls = <<>>
    /\ queried = FALSE
    /\ refused = FALSE
    /\ inst = "none"
    /\ health = "missing"
    /\ bootvol = "none"
    /\ newvols = <<>>
    /\ targets = {}
    /\ reported = FALSE

NextIds ==
    \/ ValidateAmi
    \/ validate_subnet
    \/ ValidateSecurityGroup

SpecIds == InitIds /\ [][NextIds]_vars

\* ------------------------------------------- the instance steps, scheduled
\* The run at line 787, about to call recovery_ec2_make: one volume has been
\* created from the one snapshot of the group.
InitLive ==
    /\ AMI_ID = AmiPrefix \o HexStr(8)
    /\ EBS_TYPE = "gp2"
    /\ EBS_IOPS = 0
    /\ POWER_ON \in BOOLEAN
    /\ SECURITY_GROUPS = Sg8
    /\ USERDATA_BOOL \in BOOLEAN
    /\ USERDATA_FILE \in FileInputs
    /\ ~(USERDATA_BOOL /\ Truthy(USERDATA_FILE))
    /\ EC2_SUBNET = Subnet1
    /\ PROV_KEY = Key1
    /\ pc = "make"
    /\ result = "running"
    /\ message = ""
    /\ EC2_AZ \in Zones
    /\ RECOVERY_HOST_INSTANCE_ID = ""
    /\ target_ebs = <<>>
    /\ SECURITY_GROUP_LIST = <<Sg8>>
    /\ \E size \in Sizes, dev \in Devices, az \in SnapZones :
         /\ SNAP_ATTRIBS = <<[size |-> size, dev |-> dev, az |-> az]>>
         /\ RESTORED_EBS_INFO = <<[VolumeId |-> NewVol(1), dev |-> dev]>>
         /\ calls = <<Call("create_volume", NewVol(1),
                           [snap |-> 1, dev |-> dev, iops |-> 0,
                            type |-> "gp2", az |-> EC2_AZ], TRUE)>>
    /\ attached = 0
    /\ lastPoll = NoPoll
    /\ observed = {"ami", "subnet", "sg", "key", "snapshots"}
    /\ queried = TRUE
    /\ refused = FALSE
    /\ inst = "none"
    /\ health = "missing"
    /\ bootvol = "none"
    /\ newvols = <<"creating">>
    /\ targets = {}
    /\ reported = FALSE

\* The statements of the script from line 787 on.
Script ==
    \/ recovery_ec2_make
    \/ AwaitOnline
    \/ recovery_ec2_stop
    \/ AwaitOffline
    \/ NukeDetach
    \/ NukeWaitAvailable
    \/ NukeDelete
    \/ NukeWaitGone
    \/ ebs_reconstitution_attach
    \/ recovery_ec2_add_access
    \/ userdata_inject
    \/ userdata_clone
    \/ recovery_ec2_power_on
    \/ AwaitFinal
    \/ recovery_ec2_get_connect

NextLive ==
    \/ Script
    \/ ProviderInstance
    \/ ProviderHealth
    \/ ProviderVolume
    \/ ProviderNewVolume

\* The instance passes its status checks.
HealthOk == ProviderHealth /\ health' = "ok"

\* A poll that finds what it waits for.
PollEnds == (AwaitOnline \/ AwaitOffline \/ AwaitFinal) /\ pc' # pc

\* The script runs on as long as it has a statement to run; the provider
\* finishes what it was asked for; and a condition that holds again and
\* again is met by a poll in the end.
FairLive ==
    /\ WF_vars(Script)
    /\ WF_vars(ProviderInstance)
    /\ WF_vars(ProviderVolume)
    /\ WF_vars(ProviderNewVolume)
    /\ WF_vars(HealthOk)
    /\ SF_vars(PollEnds)

LiveSpec == InitLive /\ [][NextLive]_vars /\ FairLive

TypeOK ==
    /\ result \in {"running", "done", "sys.exit", "exception"}
    /\ inst \in {"none", "pending", "running", "stopping", "stopped"}
    /\ health \in HealthValues
    /\ bootvol \in {"none", "in-use", "detaching", "available", "deleting",
                    "gone"}
    /\ attached <= Len(RESTORED_EBS_INFO)
    /\ Len(RESTORED_EBS_INFO) <= Len(SNAP_ATTRIBS)

\* ---------------------------------------------------------------- claims
Issued(op) == \E k \in 1..Len(calls) : calls[k].op = op
Accepted(op) == \E k \in 1..Len(calls) : calls[k].op = op /\ calls[k].ok
Rejected(op) == \E k \in 1..Len(calls) : calls[k].op = op /\ ~calls[k].ok
Aborted == result \in {"sys.exit", "exception"}

\* C1: when the provider rejects the security-group modify call, the run
\* does not end in recovery_ec2_add_access: it goes on with the next step.
C1_RejectedModifyContinues ==
    Rejected("modify_groups") => pc # "add_access"

\* The options of the end-to-end scenario: general-purpose volumes, no
\* security groups, no boot-configuration flag, no power-on.
ScenarioOpts ==
    /\ AMI_ID # NoneVal /\ IdShape(AmiPrefix, AMI_ID) = "query"
    /\ EBS_TYPE = "gp2"
    /\ SECURITY_GROUPS = NoneVal
    /\ ~USERDATA_BOOL /\ USERDATA_FILE = NoneVal
    /\ EC2_SUBNET # NoneVal /\ PROV_KEY # NoneVal
    /\ ~POWER_ON

ScenarioSnaps ==
    /\ Len(SNAP_ATTRIBS) = 2
    /\ SNAP_ATTRIBS[1].dev = "/dev/sdf" /\ SNAP_ATTRIBS[2].dev = "/dev/sdg"

AttachedAt(dev) ==
    Cardinality({ k \in 1..Len(calls) :
        calls[k].op = "attach_volume" /\ calls[k].ok
        /\ calls[k].arg = dev }) = 1

\* C2: in the end-to-end scenario, with a provider that accepts every call,
\* the run is not cut short (unless the group has no snapshot at all), and
\* with the two snapshots at /dev/sdf and /dev/sdg it ends with one instance
\* launched, two volumes attached at these devices, the instance stopped
\* and no boot-configuration change.
C2_EndToEnd ==
    (ScenarioOpts /\ ~refused) =>
        /\ Aborted => "no_snapshots" \in observed
        /\ (result = "done" /\ ScenarioSnaps) =>
             /\ Accepted("run_instances")
             /\ AttachedAt("/dev/sdf") /\ AttachedAt("/dev/sdg")
             /\ attached = 2
             /\ inst = "stopped"
             /\ ~Issued("modify_userdata")

\* The place of each mutating call in the workflow.
Rank(op) ==
    CASE op = "create_volume" -> 0
      [] op = "run_instances" -> 1
      [] op = "stop_instances" -> 2
      [] op = "detach_volume" -> 3
      [] op = "delete_volume" -> 4
      [] op = "attach_volume" -> 5
      [] op = "modify_groups" -> 6
      [] op = "modify_userdata" -> 7
      [] op = "start_instances" -> 8

\* The mutating calls come in the order of the workflow, none of them twice
\* (but one create and one attach per volume).
CallsInOrder ==
    \A j, k \in 1..Len(calls) :
        j < k => \/ Rank(calls[j].op) < Rank(calls[k].op)
                 \/ /\ calls[j].op = calls[k].op
                    /\ calls[j].op \in {"create_volume", "attach_volume"}
                    /\ calls[j].id # calls[k].id

\* The waits before stop, detach and delete have seen their condition.
WaitsBeforeAttach ==
    /\ Issued("stop_instances") => "wait_online" \in observed
    /\ Issued("detach_volume") => "wait_offline" \in observed
    /\ Issued("delete_volume") => "available" \in observed

\* C3: the mutating calls are issued in the order of the workflow, each one
\* after the wait before it has seen its condition: health ok before stop,
\* stopped before detach, boot volume available before delete, boot volume
\* gone before the first attach.
C3_LinearWorkflow ==
    /\ CallsInOrder
    /\ WaitsBeforeAttach
    /\ Issued("attach_volume") => "gone" \in observed

\* All four validators have succeeded: the ids are well formed and the
\* provider has confirmed the image, the subnet, every group and the key.
AllValidated ==
    /\ AMI_ID # NoneVal /\ IdShape(AmiPrefix, AMI_ID) = "query"
    /\ SECURITY_GROUPS # NoneVal
    /\ SECURITY_GROUP_LIST = Truncate(Split(SECURITY_GROUPS))
    /\ \A i \in 1..Len(SECURITY_GROUP_LIST) :
           IdShape(SgPrefix, SECURITY_GROUP_LIST[i]) = "query"
    /\ {"ami", "subnet", "sg", "key"} \subseteq observed

ProviderUntouched ==
    calls = <<>> /\ inst = "none" /\ bootvol = "none"

ValidatorSteps ==
    {"validate_ami", "validate_subnet", "validate_sg", "validate_key"}

\* C4: no mutating call is issued unless the four validators have all
\* succeeded, and a run that a validator ends leaves the provider as it was.
C4_ValidatorsFirst ==
    /\ ~ProviderUntouched => AllValidated
    /\ (pc \in ValidatorSteps /\ Aborted) => ProviderUntouched

C4_Witness ==
    Issued("create_volume") /\ Issued("run_instances") /\ AllValidated

\* C5: the delete-confirmation poll ends only on a not-found answer, so no
\* reconstructed volume is attached while the boot volume still exists.
C5_DeleteConfirmed ==
    /\ (Accepted("delete_volume") /\ pc # "nuke_wait_gone")
           => "gone" \in observed
    /\ Issued("attach_volume") => bootvol = "gone"

\* C6: a reachability wait ends only on a poll that shows the instance
\* running with health status "ok", so the stop request and the connection
\* report come after such a poll.
C6_ReachableBeforeStop ==
    /\ (pc \in {"stop", "connect"})
           => (lastPoll.info = "running" /\ lastPoll.status = "ok")
    /\ Issued("stop_instances") => "wait_online" \in observed
    /\ (reported \/ pc = "connect") => "wait_final" \in observed

C6_Witness ==
    reported /\ Accepted("stop_instances") /\ result = "done"

WaitSteps == {"wait_online", "wait_offline", "wait_final"}

\* A poll in which a query failed, or a running instance had no health
\* status entry.
FailedPoll(p) ==
    \/ p.status = "ClientError"
    \/ p.info = "ClientError"
    \/ p.info = "running" /\ p.status = "missing"

\* C7: a poll of a state wait in which the status query or the info query
\* fails, or a running instance has no health-status entry, neither ends
\* the wait nor the run: the loop polls again.
C7_FailedPollKeepsWaiting ==
    [][(/\ pc \in WaitSteps /\ result = "running"
        /\ UNCHANGED <<inst, health, bootvol>>
        /\ FailedPoll(lastPoll'))
       => (pc' = pc /\ result' = "running")]_vars

C7_Witness ==
    /\ pc = "wait_final" /\ result = "running"
    /\ lastPoll.status = "ok" /\ lastPoll.info = "ClientError"

\* An unsupported volume kind, or io1 with a ratio of 0 or outside [3,50].
BadEbsConfig ==
    \/ EBS_TYPE \notin {"gp2", "io1"}
    \/ EBS_TYPE = "io1" /\ (EBS_IOPS = 0 \/ EBS_IOPS < 3 \/ EBS_IOPS > 50)

\* C8: with such a configuration the run creates no volume and launches no
\* instance, and it never gets past the first pass of the loop of
\* ebs_snap_reconstitute, where it is aborted.
C8_BadEbsConfigAborts ==
    BadEbsConfig =>
        /\ ~Issued("create_volume") /\ ~Issued("run_instances")
        /\ ProviderUntouched
        /\ result # "done"
        /\ pc \in {"opts", "read_file", "snap_info", "reconstitute"}
                  \cup ValidatorSteps
        /\ "snapshots" \in observed =>
               (pc = "reconstitute" /\ RESTORED_EBS_INFO = <<>>)

C8_Witness ==
    /\ BadEbsConfig /\ Len(SNAP_ATTRIBS) >= 2
    /\ pc = "reconstitute" /\ result = "sys.exit"

\* C9: when the tag query returns no snapshot the run is aborted, and no
\* volume is created and no instance launched.
C9_NoSnapshotsAborts ==
    "no_snapshots" \in observed =>
        /\ result = "sys.exit" /\ pc = "snap_info"
        /\ ~Issued("create_volume") /\ ~Issued("run_instances")
        /\ ProviderUntouched

C9_Witness ==
    "no_snapshots" \in observed /\ result = "sys.exit"

\* C10: a run given both a boot-configuration file and the clone flag is
\* rejected before any provider call, and no run injects boot-configuration
\* data from both sources.
C10_ExclusiveUserdata ==
    /\ (USERDATA_BOOL /\ Truthy(USERDATA_FILE)) =>
           /\ ~queried /\ ProviderUntouched
           /\ pc = "opts"
           /\ result # "done"
    /\ ~(\E j, k \in 1..Len(calls) :
            /\ calls[j].op = "modify_userdata" /\ calls[j].arg = "file"
            /\ calls[k].op = "modify_userdata" /\ calls[k].arg = "clone")

C10_Witness ==
    USERDATA_BOOL /\ Truthy(USERDATA_FILE) /\ result = "sys.exit"

\* ----------------------------------------------------- volumes and devices
CallsOf(op) == { k \in 1..Len(calls) : calls[k].op = op }

\* The steps from the attachment of the volumes (step 5) on.
FromAttach == {"attach", "add_access", "userdata_file", "userdata_clone",
               "power_on", "wait_final", "connect", "done"}

\* Step 5 is over: every volume of the batch has been attached.
AttachComplete ==
    /\ pc \in FromAttach
    /\ attached = Len(RESTORED_EBS_INFO)
    /\ ~(pc = "attach" /\ result = "running")

\* C11: in a run that reaches step 5 every snapshot of the batch has exactly
\* one volume, made by one create request; an attach request is issued at
\* most once per volume and always names the device of the volume's own
\* snapshot; and once step 5 is over every volume has been attached exactly
\* once and the devices used are exactly the snapshots' device tags.
C11_OneVolumeOneDevice ==
    /\ pc \in FromAttach =>
         /\ Len(RESTORED_EBS_INFO) = Len(SNAP_ATTRIBS)
         /\ \A i \in 1..Len(SNAP_ATTRIBS) :
              /\ RESTORED_EBS_INFO[i].VolumeId = NewVol(i)
              /\ Cardinality({ k \in CallsOf("create_volume") :
                                 calls[k].arg.snap = i }) = 1
              /\ Cardinality({ k \in CallsOf("create_volume") :
                                 calls[k].id = NewVol(i) }) = 1
    /\ \A k \in CallsOf("attach_volume") :
         /\ \E i \in 1..Len(SNAP_ATTRIBS) :
              calls[k].id = NewVol(i) /\ calls[k].arg = SNAP_ATTRIBS[i].dev
         /\ \A j \in CallsOf("attach_volume") :
              calls[j].id = calls[k].id => j = k
    /\ AttachComplete =>
         /\ \A i \in 1..Len(SNAP_ATTRIBS) :
              Cardinality({ k \in CallsOf("attach_volume") :
                  calls[k].id = NewVol(i) /\ calls[k].ok }) = 1
         /\ { calls[k].arg : k \in CallsOf("attach_volume") }
              = { SNAP_ATTRIBS[i].dev : i \in 1..Len(SNAP_ATTRIBS) }

C11_Witness ==
    /\ result = "done" /\ AttachComplete
    /\ Len(SNAP_ATTRIBS) = 2
    /\ SNAP_ATTRIBS[1].dev = "/dev/sdg" /\ SNAP_ATTRIBS[2].dev = "/dev/sdf"
    /\ Cardinality(CallsOf("attach_volume")) = 2

\* C12: a failed volume creation (a create request the provider rejects, or
\* an io1 snapshot smaller than the minimum size) ends the run inside the
\* reconstitution loop: only create requests were ever issued, all but the
\* failed one were accepted and their volumes still exist, no instance is
\* launched and no volume is deleted.  The run ends there with sys.exit,
\* and with an exception only for a snapshot without its tags.
C12_CreateFailureAborts ==
    /\ Rejected("create_volume") =>
         pc = "reconstitute" /\ result = "sys.exit"
    /\ (EBS_TYPE = "io1" /\ "snapshots" \in observed) =>
         \A i \in 1..Len(SNAP_ATTRIBS) :
            SNAP_ATTRIBS[i].size < MinIo1Size =>
               pc = "reconstitute" /\ Len(RESTORED_EBS_INFO) < i
    /\ (pc = "reconstitute" /\ Aborted) =>
         /\ result = "exception" <=>
              (SNAP_ATTRIBS[Len(RESTORED_EBS_INFO) + 1].dev = NoTag
               /\ ~Rejected("create_volume"))
         /\ inst = "none" /\ RECOVERY_HOST_INSTANCE_ID = ""
         /\ ~Issued("run_instances") /\ ~Issued("delete_volume")
         /\ \A k \in 1..Len(calls) :
              /\ calls[k].op = "create_volume"
              /\ (k < Len(calls) => calls[k].ok)
         /\ Len(calls) <= Len(RESTORED_EBS_INFO) + 1
         /\ Len(newvols) = Len(RESTORED_EBS_INFO)
         /\ Len(RESTORED_EBS_INFO) < Len(SNAP_ATTRIBS)

C12_Witness ==
    /\ pc = "reconstitute" /\ result = "sys.exit"
    /\ Rejected("create_volume") /\ Accepted("create_volume")
    /\ Len(newvols) = 1

\* C13: without the power-on flag no start request is issued and a completed
\* run leaves the instance stopped; without either boot-configuration flag
\* no boot-configuration modify call is issued; without a security-group
\* list no security-group modify call is issued.
C13_OptionalStepsSkipped ==
    /\ ~POWER_ON =>
         /\ ~Issued("start_instances")
         /\ (result = "done" => inst = "stopped")
    /\ (~USERDATA_BOOL /\ ~Truthy(USERDATA_FILE)) =>
         ~Issued("modify_userdata")
    /\ ~Truthy(SECURITY_GROUPS) => ~Issued("modify_groups")

C13_Witness ==
    /\ result = "done" /\ inst = "stopped"
    /\ ~POWER_ON /\ ~USERDATA_BOOL /\ ~Truthy(USERDATA_FILE)
    /\ Accepted("modify_groups")

\* C14: every create request for a volume, and the launch request, name the
\* zone the subnet validator returned.
C14_SameZone ==
    /\ \A k \in CallsOf("create_volume") \cup CallsOf("run_instances") :
         /\ "subnet" \in observed
         /\ calls[k].arg.az = EC2_AZ
         /\ EC2_AZ \in Zones

C14_Witness ==
    /\ Accepted("create_volume") /\ Accepted("run_instances")
    /\ EC2_AZ = "az-b"

\* The requests that name an instance in their id.
InstanceOps == {"stop_instances", "modify_groups", "modify_userdata",
                "start_instances"}

\* One launch request at most, for one instance, made after the volumes;
\* every request that names an instance names the one the launch returned.
OneLaunch ==
    /\ Cardinality(CallsOf("run_instances")) <= 1
    /\ \A k \in CallsOf("run_instances") :
         /\ calls[k].arg.count = 1
         /\ \A j \in 1..(k - 1) : calls[j].op = "create_volume"
         /\ calls[k].ok => RECOVERY_HOST_INSTANCE_ID = calls[k].id
    /\ \A k \in 1..Len(calls) :
         calls[k].op \in InstanceOps =>
            \E j \in CallsOf("run_instances") :
               j < k /\ calls[j].ok /\ calls[j].id = calls[k].id
    /\ ~Accepted("run_instances") =>
         /\ RECOVERY_HOST_INSTANCE_ID = ""
         /\ inst = "none"
         /\ targets = {}

Launched(t) ==
    \E k \in CallsOf("run_instances") : calls[k].ok /\ calls[k].id = t

\* The clone step has asked for the userData of the source instance.
SourceRead ==
    /\ USERDATA_BOOL
    /\ \/ pc = "userdata_clone" /\ result # "running"
       \/ pc \in {"power_on", "wait_final", "connect", "done"}

\* C18 as stated: at most one launch request is issued, for one instance,
\* and every later call of the run names the instance that launch returned.
C18_EveryCallNamesLaunched ==
    /\ OneLaunch
    /\ \A t \in targets : Launched(t)

\* C18: at most one launch request is issued, for one instance, and every
\* later call names the instance that launch returned, but for one: the
\* clone step reads the userData of the source instance of the snapshots.
C18_OneInstanceThroughout ==
    /\ OneLaunch
    /\ \A t \in targets :
         \/ Launched(t)
         \/ t = OriginalInstance /\ SourceRead
    /\ \A k \in CallsOf("modify_userdata") :
         calls[k].arg = "clone" => OriginalInstance \in targets

C18_Witness ==
    /\ result = "done" /\ reported
    /\ \E k \in CallsOf("modify_userdata") : calls[k].arg = "clone"
    /\ Accepted("modify_groups") /\ Accepted("start_instances")
    /\ targets = {RECOVERY_HOST_INSTANCE_ID, OriginalInstance}

\* C20: whenever an attach request has been issued for a reconstructed
\* volume, the provider had finished creating that volume.
C20_AvailableWhenAttached ==
    \A k \in CallsOf("attach_volume") : calls[k].id \in Available

\* ------------------------------------------------------- provisioned IOPS
\* C15: every io1 create request is for a snapshot of at least 4 GiB with a
\* ratio in [3,50], and asks for size * ratio IOPS brought into
\* [100, 64000]: 100 below, 64000 above, the product otherwise; size 10 at
\* ratio 5 and size 4 at ratio 3 give 100, size 2000 at ratio 50 gives 64000.
C15_IopsClamped ==
    \A k \in CallsOf("create_volume") :
       LET size == SNAP_ATTRIBS[calls[k].arg.snap].size
           product == size * EBS_IOPS
           iops == calls[k].arg.iops
       IN
       calls[k].arg.type = "io1" =>
          /\ size >= 4 /\ EBS_IOPS >= 3 /\ EBS_IOPS <= 50
          /\ product < 100 => iops = 100
          /\ product > 64000 => iops = 64000
          /\ (product >= 100 /\ product <= 64000) => iops = product
          /\ (size = 10 /\ EBS_IOPS = 5) => iops = 100
          /\ (size = 2000 /\ EBS_IOPS = 50) => iops = 64000
          /\ (size = 4 /\ EBS_IOPS = 3) => iops = 100

C15_Witness ==
    /\ Accepted("create_volume") /\ EBS_TYPE = "io1"
    /\ SNAP_ATTRIBS[1].size = 10 /\ EBS_IOPS = 5
    /\ calls[1].arg.iops = 100

\* --------------------------------------------------- security-group lists
\* The comma-separated entries of the -g argument.
Entries == Split(SECURITY_GROUPS)

\* The first five entries of a list, or all of a shorter one.
FirstFive(list) ==
    [i \in 1..(IF Len(list) > 5 THEN 5 ELSE Len(list)) |-> list[i]]

\* C16: the list the validator returns is the first five entries of an input
\* of more than five, in their order, and the whole input otherwise; the
\* entries after the fifth are not validated: they are never the reason the
\* validator ends the run.
C16_TruncatedToFive ==
    /\ pc # "validate_sg" =>
         /\ Len(Entries) > 5 =>
              /\ Len(SECURITY_GROUP_LIST) = 5
              /\ \A i \in 1..5 : SECURITY_GROUP_LIST[i] = Entries[i]
         /\ Len(Entries) <= 5 => SECURITY_GROUP_LIST = Entries
    /\ (pc = "validate_sg" /\ Aborted) =>
         \/ message = "exit_notfound" /\ refused
         \/ /\ message \in {"exit_length", "exit_chars"}
            /\ \E i \in 1..Len(FirstFive(Entries)) :
                 /\ IdShape(SgPrefix, Entries[i]) # "query"
                 /\ \A j \in 1..(i - 1) :
                      IdShape(SgPrefix, Entries[j]) = "query"
    /\ (pc = "validate_sg" /\ result = "running") => SECURITY_GROUP_LIST = <<>>

C16_Witness ==
    /\ pc = "validate_key"
    /\ Len(Entries) = 6 /\ Entries[6] = <<"x">> /\ Entries[1] # Entries[5]
    /\ SECURITY_GROUP_LIST = SubSeq(Entries, 1, 5)

\* ------------------------------------------------------ identifier shapes
RightLength(prefix, s) == Len(s) \in {Len(prefix) + 8, Len(prefix) + 17}

\* The prefix followed by 8 or 17 lowercase-hex characters.
WellFormedId(prefix, s) ==
    /\ RightLength(prefix, s)
    /\ \A i \in 1..Len(s) :
         IF i <= Len(prefix) THEN s[i] = prefix[i] ELSE s[i] \in HexChars

\* The reason a run is ended for an identifier that is not accepted.
Reason(prefix, s) ==
    IF ~RightLength(prefix, s) THEN "exit_length"
    ELSE IF ~WellFormedId(prefix, s) THEN "exit_chars"
    ELSE "exit_notfound"

\* C17: an image id or a security-group id gets past its validator only if
\* it is the prefix followed by 8 or 17 lowercase-hex characters and the
\* provider knew it; for any other string the validator ends the run with
\* sys.exit, and the message tells a wrong length from invalid characters
\* and from an id the provider does not know.
C17_IdsValidated ==
    /\ pc # "validate_ami" =>
         WellFormedId(AmiPrefix, AMI_ID) /\ "ami" \in observed
    /\ (pc = "validate_ami" /\ Aborted) =>
         /\ result = "sys.exit"
         /\ message = Reason(AmiPrefix, AMI_ID)
         /\ message = "exit_notfound" => refused
    /\ pc \notin {"validate_ami", "validate_subnet", "validate_sg"} =>
         /\ "sg" \in observed
         /\ SECURITY_GROUP_LIST # <<>>
         /\ \A i \in 1..Len(SECURITY_GROUP_LIST) :
              WellFormedId(SgPrefix, SECURITY_GROUP_LIST[i])
    /\ (pc = "validate_sg" /\ Aborted) =>
         /\ result = "sys.exit"
         /\ \E i \in 1..Len(FirstFive(Entries)) :
              /\ message = Reason(SgPrefix, Entries[i])
              /\ message = "exit_notfound" => refused
              /\ \A j \in 1..(i - 1) : WellFormedId(SgPrefix, Entries[j])

C17_Witness ==
    /\ pc = "validate_key" /\ result = "running"
    /\ AMI_ID = AmiPrefix \o HexStr(17)
    /\ SECURITY_GROUP_LIST = <<Sg8, Sg17>>

\* ------------------------------------------------------------- termination
\* A wait is left in this step.
WaitLeft == pc \in WaitSteps /\ pc' # pc

\* C19: a run in which the provider rejects no call comes to an end, the
\* provider reporting each awaited condition in the end; and a wait for an
\* instance state is left only by a poll in which that state was reported:
\* until then the script stays in the wait, running.
C19_WaitsWithoutTimeout ==
    /\ ([]~refused) => <>(result # "running")
    /\ [][/\ pc \in WaitSteps => result' = "running"
          /\ WaitLeft => pc \in observed' \ observed]_vars

C19_Witness ==
    /\ result = "done" /\ ~refused /\ POWER_ON
    /\ WaitSteps \subseteq observed
    /\ {"available", "gone"} \subseteq observed

\* --------------------------------------------------- what the run destroys
\* The requests the script can make that change something at the provider.
KnownOps == {"create_volume", "run_instances", "stop_instances",
             "detach_volume", "delete_volume", "attach_volume",
             "modify_groups", "modify_userdata", "start_instances"}

\* The volumes made from the snapshots.
Reconstructed == { NewVol(i) : i \in 1..Len(newvols) }

\* C21: every detach and every delete request names the boot volume the
\* instance was launched with, read as its first block-device mapping after
\* the instance was seen stopped; there is at most one of each, no request
\* of another destructive kind exists, every volume made from a snapshot
\* stays in place, and the delete follows a poll that saw the boot volume
\* available.
C21_OnlyBootVolumeDestroyed ==
    /\ \A k \in 1..Len(calls) : calls[k].op \in KnownOps
    /\ \A k \in CallsOf("detach_volume") \cup CallsOf("delete_volume") :
         /\ calls[k].id = RootVol
         /\ calls[k].id = target_ebs
         /\ calls[k].id \notin Reconstructed
         /\ "wait_offline" \in observed
    /\ Cardinality(CallsOf("detach_volume")) <= 1
    /\ Cardinality(CallsOf("delete_volume")) <= 1
    /\ \A k \in CallsOf("delete_volume") :
         /\ "available" \in observed
         /\ \E j \in CallsOf("detach_volume") : j < k /\ calls[j].ok
    /\ Len(newvols) = Len(RESTORED_EBS_INFO)
    /\ \A i \in 1..Len(newvols) : newvols[i] \in {"creating", "available"}
    /\ bootvol \in {"deleting", "gone"} => Accepted("delete_volume")

C21_Witness ==
    /\ result = "exception" /\ pc = "attach"
    /\ Accepted("detach_volume") /\ Accepted("delete_volume")
    /\ target_ebs = RootVol
    /\ Len(newvols) = 2

====
